---- MODULE Spec2Model ----
(***************************************************************************)
(* Model of the digital-will canister (src/dfinity_js_backend/src/index.ts)*)
(* Five StableBTreeMap collections keyed by uuid, six update handlers and  *)
(* six query handlers.  Every handler is a synchronous callback, so one    *)
(* action models one whole handler call.                                   *)
(***************************************************************************)
EXTENDS Integers, Sequences, FiniteSets, TLC

\* ---------------------------------------------------------------- bounds
\* Number of distinct uuid strings the model draws from.
MaxIds == 6
\* Number of records the handlers create in the specifications that explore
\* every order of calls.
MaxRecords == 5
\* uuid strings, abstracted to 1..MaxIds.
Ids == 1 .. MaxIds
\* nat64 payload values (value, share): the handlers store them unread.
Values == { 0, 1 }
\* text values: a text is a sequence of characters.  The handlers inspect a
\* text only for JavaScript truthiness, so the model draws the empty text
\* and one non-empty text; the non-empty one is whitespace-only.
Texts == { <<>>, <<" ">> }

VARIABLES
    usersStorage,          \* StableBTreeMap(0, text, User)
    willsStorage,          \* StableBTreeMap(1, text, Will)
    executorsStorage,      \* StableBTreeMap(2, text, Executor)
    assetsStorage,         \* StableBTreeMap(3, text, Asset)
    beneficiariesStorage,  \* StableBTreeMap(4, text, Beneficiary)
    issued,                \* uuids returned by uuidv4() so far, in order
    now,                   \* last value returned by ic.time()
    lastResult,            \* the Result returned by the last handler call
    pc,                    \* position inside addAsset / addBeneficiary
    pending                \* the asset / beneficiary built by that handler

vars == << usersStorage, willsStorage, executorsStorage, assetsStorage,
           beneficiariesStorage, issued, now, lastResult, pc, pending >>

stores == << usersStorage, willsStorage, executorsStorage, assetsStorage,
             beneficiariesStorage >>

\* ------------------------------------------------------------ primitives
Range(s) == { s[i] : i \in DOMAIN s }

\* StableBTreeMap.insert(key, value): inserts or overwrites.
insert(map, key, value) ==
    [ k \in (DOMAIN map) \cup {key} |-> IF k = key THEN value ELSE map[k] ]

\* StableBTreeMap.get(key) is None ("None" in opt).
IsNone(map, key) == key \notin DOMAIN map

\* The keys of a StableBTreeMap in its iteration order (ascending keys).
keys(map) ==
    CHOOSE s \in [ 1 .. Cardinality(DOMAIN map) -> DOMAIN map ] :
        \A i, j \in 1 .. Cardinality(DOMAIN map) : i < j => s[i] < s[j]

\* Faulty variant of values: the record under the greatest key is left out.
valuesButLast(map) ==
    [ i \in 1 .. Cardinality(DOMAIN map) - 1 |-> map[keys(map)[i]] ]

\* StableBTreeMap.values(): the records in key order.
values(map) == [ i \in 1 .. Cardinality(DOMAIN map) |-> map[keys(map)[i]] ]

\* Faulty variant of push: the element goes to the front (unshift).
pushFront(list, x) == << x >> \o list

\* Array.prototype.push on a Vec.
push(list, x) == Append(list, x)

\* JavaScript truthiness of a string: only the empty string is falsy.
Truthy(s) == Len(s) > 0

\* uuids never generated before.
Unused == Ids \ Range(issued)

\* Values uuidv4() can return: a uuid never generated before.  The handlers
\* only compare uuids for equality, so the model returns the least unused.
uuidv4 == { id \in Unused : \A other \in Unused : id <= other }

\* Values ic.time() can return: later than every value returned before.
icTime == { now + 1 }

Ok(op, v)  == [ op |-> op, tag |-> "Ok",  val |-> v ]
Err(op, m) == [ op |-> op, tag |-> "Err", val |-> m ]
Null == "null"

\* Faulty variant of RunToCompletion: a handler may start while another one
\* is between its two store writes.
Reentrant == TRUE

\* The handler is a synchronous callback: it starts only when no other
\* handler is in progress.
RunToCompletion == pc = "idle"

\* ---------------------------------------------------------------- payloads
UserPayload     == [ name : Texts, email : Texts ]
ExecutorPayload == [ name : Texts, contact : Texts ]
WillPayload     == [ userId : Ids, executorId : Ids ]
AssetPayload    == [ willId : Ids, name : Texts, value : Values ]
BeneficiaryPayload == [ willId : Ids, name : Texts, share : Values ]
AssignExecutorPayload == [ willId : Ids, executorId : Ids ]

\* ------------------------------------------------------------------- Init
Init ==
    /\ usersStorage = << >>
    /\ willsStorage = << >>
    /\ executorsStorage = << >>
    /\ assetsStorage = << >>
    /\ beneficiariesStorage = << >>
    /\ issued = << >>
    /\ now = 0
    /\ lastResult = [ op |-> "none", tag |-> "none", val |-> Null ]
    /\ pc = "idle"
    /\ pending = Null

\* --------------------------------------------------------------- handlers
NewUser(id, payload, t) ==
    [ id |-> id, name |-> payload.name, email |-> payload.email,
      createdAt |-> t ]

UserPayloadRejected(payload) ==
    ~Truthy(payload.name) \/ ~Truthy(payload.email)

createUser(payload) ==
    /\ RunToCompletion
    /\ IF UserPayloadRejected(payload)
       THEN /\ lastResult' = Err("createUser", "Name and email are required.")
            /\ UNCHANGED << stores, issued, now, pc, pending >>
       ELSE \E id \in uuidv4 : \E t \in icTime :
            /\ usersStorage' = insert(usersStorage, id, NewUser(id, payload, t))
            /\ issued' = Append(issued, id)
            /\ now' = t
            /\ lastResult' = Ok("createUser", NewUser(id, payload, t))
            /\ UNCHANGED << willsStorage, executorsStorage, assetsStorage,
                            beneficiariesStorage, pc, pending >>

NewExecutor(id, payload, t) ==
    [ id |-> id, name |-> payload.name, contact |-> payload.contact,
      createdAt |-> t ]

ExecutorPayloadRejected(payload) ==
    ~Truthy(payload.name) \/ ~Truthy(payload.contact)

createExecutor(payload) ==
    /\ RunToCompletion
    /\ IF ExecutorPayloadRejected(payload)
       THEN /\ lastResult' = Err("createExecutor", "Name and contact are required.")
            /\ UNCHANGED << stores, issued, now, pc, pending >>
       ELSE \E id \in uuidv4 : \E t \in icTime :
            /\ executorsStorage' =
                   insert(executorsStorage, id, NewExecutor(id, payload, t))
            /\ issued' = Append(issued, id)
            /\ now' = t
            /\ lastResult' = Ok("createExecutor", NewExecutor(id, payload, t))
            /\ UNCHANGED << usersStorage, willsStorage, assetsStorage,
                            beneficiariesStorage, pc, pending >>

\* Faulty variant of NewWill: the Will takes the id of its user.
NewWillWithUserId(id, payload, t) ==
    [ id |-> payload.userId, userId |-> payload.userId,
      executorId |-> payload.executorId, assets |-> << >>,
      beneficiaries |-> << >>, createdAt |-> t, isExecuted |-> FALSE ]

NewWill(id, payload, t) ==
    [ id |-> id, userId |-> payload.userId, executorId |-> payload.executorId,
      assets |-> << >>, beneficiaries |-> << >>, createdAt |-> t,
      isExecuted |-> FALSE ]

\* Faulty variant of createWillUserNotFound: the user is looked up in
\* executorsStorage.
createWillUserLookupInExecutors(payload) ==
    IsNone(executorsStorage, payload.userId)

\* Faulty variant of createWillExecutorNotFound: the executor is looked up
\* in usersStorage.
createWillExecutorLookupInUsers(payload) ==
    IsNone(usersStorage, payload.executorId)

\* "None" in usersStorage.get(payload.userId)
createWillUserNotFound(payload) == IsNone(usersStorage, payload.userId)

\* "None" in executorsStorage.get(payload.executorId)
createWillExecutorNotFound(payload) ==
    IsNone(executorsStorage, payload.executorId)

createWill(payload) ==
    /\ RunToCompletion
    /\ IF createWillUserNotFound(payload)
       THEN /\ lastResult' = Err("createWill", "User not found.")
            /\ UNCHANGED << stores, issued, now, pc, pending >>
       ELSE IF createWillExecutorNotFound(payload)
       THEN /\ lastResult' = Err("createWill", "Executor not found.")
            /\ UNCHANGED << stores, issued, now, pc, pending >>
       ELSE \E id \in uuidv4 : \E t \in icTime :
            /\ willsStorage' = insert(willsStorage, id, NewWill(id, payload, t))
            /\ issued' = Append(issued, id)
            /\ now' = t
            /\ lastResult' = Ok("createWill", NewWill(id, payload, t))
            /\ UNCHANGED << usersStorage, executorsStorage, assetsStorage,
                            beneficiariesStorage, pc, pending >>

\* Faulty variant of NewAsset: the payload's value is not copied.
NewAssetWithoutValue(id, payload, t) ==
    [ id |-> id, willId |-> payload.willId, name |-> payload.name,
      value |-> 0, createdAt |-> t ]

NewAsset(id, payload, t) ==
    [ id |-> id, willId |-> payload.willId, name |-> payload.name,
      value |-> payload.value, createdAt |-> t ]

\* Faulty variant of WillWithAsset: the Will's createdAt is stamped again.
WillWithAssetRestamped(will, asset) ==
    [ will EXCEPT !.assets = push(@, asset), !.createdAt = asset.createdAt ]

\* will.assets.push(asset) on the Will read from willsStorage.
WillWithAsset(will, asset) == [ will EXCEPT !.assets = push(@, asset) ]

\* Faulty variant of addAssetWillNotFound: the asset was stored before the
\* Will was looked up.
addAssetWillNotFoundAfterStore(payload) ==
    \E assetId \in uuidv4 : \E t \in icTime :
        /\ assetsStorage' =
               insert(assetsStorage, assetId, NewAsset(assetId, payload, t))
        /\ issued' = Append(issued, assetId)
        /\ now' = t
        /\ lastResult' = Err("addAsset", "Will not found.")
        /\ UNCHANGED << usersStorage, willsStorage, executorsStorage,
                        beneficiariesStorage, pc, pending >>

\* return Err("Will not found.") of addAsset: nothing was written before it.
addAssetWillNotFound(payload) ==
    /\ lastResult' = Err("addAsset", "Will not found.")
    /\ UNCHANGED << stores, issued, now, pc, pending >>

addAsset(payload) ==
    /\ RunToCompletion
    /\ IF IsNone(willsStorage, payload.willId)
       THEN addAssetWillNotFound(payload)
       ELSE \E assetId \in uuidv4 : \E t \in icTime :
            LET will  == willsStorage[payload.willId]
                asset == NewAsset(assetId, payload, t)
            IN  /\ willsStorage' =
                       insert(willsStorage, payload.willId, WillWithAsset(will, asset))
                /\ assetsStorage' = insert(assetsStorage, assetId, asset)
                /\ issued' = Append(issued, assetId)
                /\ now' = t
                /\ lastResult' = Ok("addAsset", Null)
                /\ UNCHANGED << usersStorage, executorsStorage,
                                beneficiariesStorage, pc, pending >>

NewBeneficiary(id, payload, t) ==
    [ id |-> id, willId |-> payload.willId, name |-> payload.name,
      share |-> payload.share, createdAt |-> t ]

\* Faulty variant of WillWithBeneficiary: the list is replaced, not extended.
WillWithOnlyBeneficiary(will, beneficiary) ==
    [ will EXCEPT !.beneficiaries = << beneficiary >> ]

\* will.beneficiaries.push(beneficiary) on the Will read from willsStorage.
WillWithBeneficiary(will, beneficiary) ==
    [ will EXCEPT !.beneficiaries = push(@, beneficiary) ]

\* return Err("Will not found.") of addBeneficiary: nothing was written
\* before it.
addBeneficiaryWillNotFound(payload) ==
    /\ lastResult' = Err("addBeneficiary", "Will not found.")
    /\ UNCHANGED << stores, issued, now, pc, pending >>

addBeneficiary(payload) ==
    /\ RunToCompletion
    /\ IF IsNone(willsStorage, payload.willId)
       THEN addBeneficiaryWillNotFound(payload)
       ELSE \E beneficiaryId \in uuidv4 : \E t \in icTime :
            LET will        == willsStorage[payload.willId]
                beneficiary == NewBeneficiary(beneficiaryId, payload, t)
            IN  /\ willsStorage' =
                       insert(willsStorage, payload.willId,
                              WillWithBeneficiary(will, beneficiary))
                /\ beneficiariesStorage' =
                       insert(beneficiariesStorage, beneficiaryId, beneficiary)
                /\ issued' = Append(issued, beneficiaryId)
                /\ now' = t
                /\ lastResult' = Ok("addBeneficiary", Null)
                /\ UNCHANGED << usersStorage, executorsStorage, assetsStorage,
                                pc, pending >>

\* Faulty variant of WillWithExecutor: assigning an executor marks the Will
\* executed.
WillWithExecutorExecuted(will, executorId) ==
    [ will EXCEPT !.executorId = executorId, !.isExecuted = TRUE ]

\* Faulty variant of WillWithExecutor: the new executorId is not assigned.
WillWithExecutorKept(will, executorId) == will

\* Faulty variant of WillWithExecutor: the Will is rebuilt with empty lists.
WillWithExecutorRebuilt(will, executorId) ==
    [ will EXCEPT !.executorId = executorId, !.assets = << >>,
                  !.beneficiaries = << >> ]

\* will.executorId = payload.executorId on the Will read from willsStorage.
WillWithExecutor(will, executorId) == [ will EXCEPT !.executorId = executorId ]

\* Faulty variant of assignExecutorExecutorNotFound: the executor is looked
\* up in usersStorage.
assignExecutorLookupInUsers(payload) == IsNone(usersStorage, payload.executorId)

\* "None" in executorsStorage.get(payload.executorId)
assignExecutorExecutorNotFound(payload) ==
    IsNone(executorsStorage, payload.executorId)

assignExecutor(payload) ==
    /\ RunToCompletion
    /\ IF IsNone(willsStorage, payload.willId)
       THEN /\ lastResult' = Err("assignExecutor", "Will not found.")
            /\ UNCHANGED << stores, issued, now, pc, pending >>
       ELSE IF assignExecutorExecutorNotFound(payload)
       THEN /\ lastResult' = Err("assignExecutor", "Executor not found.")
            /\ UNCHANGED << stores, issued, now, pc, pending >>
       ELSE /\ willsStorage' =
                   insert(willsStorage, payload.willId,
                          WillWithExecutor(willsStorage[payload.willId],
                                           payload.executorId))
            /\ lastResult' = Ok("assignExecutor", Null)
            /\ UNCHANGED << usersStorage, executorsStorage, assetsStorage,
                            beneficiariesStorage, issued, now, pc, pending >>

\* ---------------------------------------------------------------- queries
\* Faulty variant of getUser: the record is looked up in executorsStorage.
getUserFromExecutors(userId) ==
    /\ RunToCompletion
    /\ lastResult' = IF IsNone(executorsStorage, userId)
                     THEN Err("getUser", "User not found.")
                     ELSE Ok("getUser", executorsStorage[userId])
    /\ UNCHANGED << stores, issued, now, pc, pending >>

getUser(userId) ==
    /\ RunToCompletion
    /\ lastResult' = IF IsNone(usersStorage, userId)
                     THEN Err("getUser", "User not found.")
                     ELSE Ok("getUser", usersStorage[userId])
    /\ UNCHANGED << stores, issued, now, pc, pending >>

getAllUsers ==
    /\ RunToCompletion
    /\ lastResult' = IF Len(values(usersStorage)) = 0
                     THEN Err("getAllUsers", "No users found.")
                     ELSE Ok("getAllUsers", values(usersStorage))
    /\ UNCHANGED << stores, issued, now, pc, pending >>

getExecutor(executorId) ==
    /\ RunToCompletion
    /\ lastResult' = IF IsNone(executorsStorage, executorId)
                     THEN Err("getExecutor", "Executor not found.")
                     ELSE Ok("getExecutor", executorsStorage[executorId])
    /\ UNCHANGED << stores, issued, now, pc, pending >>

getAllExecutors ==
    /\ RunToCompletion
    /\ lastResult' = IF Len(values(executorsStorage)) = 0
                     THEN Err("getAllExecutors", "No executors found.")
                     ELSE Ok("getAllExecutors", values(executorsStorage))
    /\ UNCHANGED << stores, issued, now, pc, pending >>

\* Faulty variant of getWill: a Will that is not found is created.
getWillOrCreate(willId) ==
    /\ RunToCompletion
    /\ lastResult' = IF IsNone(willsStorage, willId)
                     THEN Err("getWill", "Will not found.")
                     ELSE Ok("getWill", willsStorage[willId])
    /\ willsStorage' =
           IF IsNone(willsStorage, willId)
           THEN insert(willsStorage, willId,
                       [ id |-> willId, userId |-> willId, executorId |-> willId,
                         assets |-> << >>, beneficiaries |-> << >>,
                         createdAt |-> now, isExecuted |-> FALSE ])
           ELSE willsStorage
    /\ UNCHANGED << usersStorage, executorsStorage, assetsStorage,
                    beneficiariesStorage, issued, now, pc, pending >>

getWill(willId) ==
    /\ RunToCompletion
    /\ lastResult' = IF IsNone(willsStorage, willId)
                     THEN Err("getWill", "Will not found.")
                     ELSE Ok("getWill", willsStorage[willId])
    /\ UNCHANGED << stores, issued, now, pc, pending >>

getAllWills ==
    /\ RunToCompletion
    /\ lastResult' = IF Len(values(willsStorage)) = 0
                     THEN Err("getAllWills", "No wills found.")
                     ELSE Ok("getAllWills", values(willsStorage))
    /\ UNCHANGED << stores, issued, now, pc, pending >>

\* ------------------------------------------- addAsset, one write at a time
\* addAsset up to and including willsStorage.insert(payload.willId, will).
addAssetWriteWill(payload) ==
    /\ RunToCompletion
    /\ IF IsNone(willsStorage, payload.willId)
       THEN addAssetWillNotFound(payload)
       ELSE \E assetId \in uuidv4 : \E t \in icTime :
            LET will  == willsStorage[payload.willId]
                asset == NewAsset(assetId, payload, t)
            IN  /\ willsStorage' =
                       insert(willsStorage, payload.willId, WillWithAsset(will, asset))
                /\ issued' = Append(issued, assetId)
                /\ now' = t
                /\ pc' = "addAsset"
                /\ pending' = asset
                /\ UNCHANGED << usersStorage, executorsStorage, assetsStorage,
                                beneficiariesStorage, lastResult >>

\* addAsset from assetsStorage.insert(assetId, asset) to its return.
addAssetWriteAsset ==
    /\ pc = "addAsset"
    /\ assetsStorage' = insert(assetsStorage, pending.id, pending)
    /\ lastResult' = Ok("addAsset", Null)
    /\ pc' = "idle"
    /\ pending' = Null
    /\ UNCHANGED << usersStorage, willsStorage, executorsStorage,
                    beneficiariesStorage, issued, now >>

\* addBeneficiary up to and including willsStorage.insert(payload.willId, will).
addBeneficiaryWriteWill(payload) ==
    /\ RunToCompletion
    /\ IF IsNone(willsStorage, payload.willId)
       THEN addBeneficiaryWillNotFound(payload)
       ELSE \E beneficiaryId \in uuidv4 : \E t \in icTime :
            LET will        == willsStorage[payload.willId]
                beneficiary == NewBeneficiary(beneficiaryId, payload, t)
            IN  /\ willsStorage' =
                       insert(willsStorage, payload.willId,
                              WillWithBeneficiary(will, beneficiary))
                /\ issued' = Append(issued, beneficiaryId)
                /\ now' = t
                /\ pc' = "addBeneficiary"
                /\ pending' = beneficiary
                /\ UNCHANGED << usersStorage, executorsStorage, assetsStorage,
                                beneficiariesStorage, lastResult >>

\* addBeneficiary from beneficiariesStorage.insert(...) to its return.
addBeneficiaryWriteBeneficiary ==
    /\ pc = "addBeneficiary"
    /\ beneficiariesStorage' = insert(beneficiariesStorage, pending.id, pending)
    /\ lastResult' = Ok("addBeneficiary", Null)
    /\ pc' = "idle"
    /\ pending' = Null
    /\ UNCHANGED << usersStorage, willsStorage, executorsStorage,
                    assetsStorage, issued, now >>

\* ---------------------------------------------------------- specification
\* The step leaves at most MaxRecords records created.
WithinRecords == Len(issued') <= MaxRecords

\* One step is one whole call of an update handler.
Next ==
    \/ \E payload \in UserPayload : createUser(payload) /\ WithinRecords
    \/ \E payload \in ExecutorPayload : createExecutor(payload) /\ WithinRecords
    \/ \E payload \in WillPayload : createWill(payload) /\ WithinRecords
    \/ \E payload \in AssetPayload : addAsset(payload) /\ WithinRecords
    \/ \E payload \in BeneficiaryPayload : addBeneficiary(payload) /\ WithinRecords
    \/ \E payload \in AssignExecutorPayload : assignExecutor(payload)

Spec == Init /\ [][Next]_vars

\* The same handlers with the two store writes of addAsset and of
\* addBeneficiary as separate steps, and getWill as the reader.
NextSteps ==
    \/ \E payload \in UserPayload : createUser(payload) /\ WithinRecords
    \/ \E payload \in ExecutorPayload : createExecutor(payload) /\ WithinRecords
    \/ \E payload \in WillPayload : createWill(payload) /\ WithinRecords
    \/ \E payload \in AssetPayload : addAssetWriteWill(payload) /\ WithinRecords
    \/ addAssetWriteAsset
    \/ \E payload \in BeneficiaryPayload : addBeneficiaryWriteWill(payload) /\ WithinRecords
    \/ addBeneficiaryWriteBeneficiary
    \/ \E payload \in AssignExecutorPayload : assignExecutor(payload)
    \/ \E willId \in Ids : getWill(willId)

SpecSteps == Init /\ [][NextSteps]_vars

\* The update handlers and the query handlers, one whole call per step.
NextQuery ==
    \/ \E payload \in UserPayload : createUser(payload) /\ WithinRecords
    \/ \E payload \in ExecutorPayload : createExecutor(payload) /\ WithinRecords
    \/ \E payload \in WillPayload : createWill(payload) /\ WithinRecords
    \/ \E payload \in AssetPayload : addAsset(payload) /\ WithinRecords
    \/ \E payload \in BeneficiaryPayload : addBeneficiary(payload) /\ WithinRecords
    \/ \E payload \in AssignExecutorPayload : assignExecutor(payload)
    \/ \E userId \in Ids : getUser(userId)
    \/ getAllUsers
    \/ \E executorId \in Ids : getExecutor(executorId)
    \/ getAllExecutors
    \/ \E willId \in Ids : getWill(willId)
    \/ getAllWills

SpecQuery == Init /\ [][NextQuery]_vars

\* The number of records a collection holds.
Count(map) == Cardinality(DOMAIN map)

\* The Executor created last.
NewestExecutor ==
    CHOOSE e \in DOMAIN executorsStorage :
        \A other \in DOMAIN executorsStorage :
            executorsStorage[other].createdAt <= executorsStorage[e].createdAt

\* One client session: a user, an executor, a will for them, one asset and
\* one beneficiary on it, a second executor, the will assigned to the second
\* executor, then getWill.  Each call may be repeated with any payload until
\* it succeeds; assignExecutor always names the second executor.
NextScenario ==
    \/ /\ Count(usersStorage) = 0
       /\ \E payload \in UserPayload : createUser(payload)
    \/ /\ Count(usersStorage) = 1
       /\ \/ Count(executorsStorage) = 0
          \/ Count(executorsStorage) = 1 /\ Count(beneficiariesStorage) = 1
       /\ \E payload \in ExecutorPayload : createExecutor(payload)
    \/ /\ Count(executorsStorage) = 1
       /\ Count(willsStorage) = 0
       /\ \E payload \in WillPayload : createWill(payload)
    \/ /\ Count(willsStorage) = 1
       /\ Count(assetsStorage) = 0
       /\ \E payload \in AssetPayload : addAsset(payload)
    \/ /\ Count(assetsStorage) = 1
       /\ Count(beneficiariesStorage) = 0
       /\ \E payload \in BeneficiaryPayload : addBeneficiary(payload)
    \/ /\ Count(executorsStorage) = 2
       /\ lastResult.op \in { "createExecutor", "assignExecutor" }
       /\ \E payload \in AssignExecutorPayload :
              /\ payload.executorId = NewestExecutor
              /\ assignExecutor(payload)
    \/ /\ \/ lastResult.op = "assignExecutor" /\ lastResult.tag = "Ok"
          \/ lastResult.op = "getWill"
       /\ \E willId \in Ids : getWill(willId)

SpecScenario == Init /\ [][NextScenario]_vars

\* ================================================================ properties
\* The records of a standalone collection that belong to will w, in the
\* order in which they were added (the order their uuids were generated).
RecordsOf(map, w) ==
    LET mine(id) == id \in DOMAIN map /\ map[id].willId = w
        order    == SelectSeq(issued, mine)
    IN  [ i \in 1 .. Len(order) |-> map[order[i]] ]

\* The embedded lists of the Will stored under key k agree with the
\* standalone collections.
WillInSync(k) ==
    /\ willsStorage[k].assets = RecordsOf(assetsStorage, willsStorage[k].id)
    /\ willsStorage[k].beneficiaries =
           RecordsOf(beneficiariesStorage, willsStorage[k].id)

\* C1: in every reachable state, every Will's assets list is exactly the
\* sequence of standalone Asset records whose willId is that Will's id, in
\* the order they were added and with identical fields, and likewise its
\* beneficiaries list against the standalone Beneficiaries collection.
EmbeddedListsEqualStandalone == \A k \in DOMAIN willsStorage : WillInSync(k)

\* A Will with two assets, both in the standalone collection.
EmbeddedListsWitness ==
    \E k \in DOMAIN willsStorage :
        /\ Len(willsStorage[k].assets) = 2
        /\ Cardinality(DOMAIN assetsStorage) = 2

\* A step that completes a handler already in progress (its second write).
CompletesHandler == pc # "idle" /\ pc' = "idle"

\* C2: the two writes of addAsset / addBeneficiary are one atomic unit: every
\* handler call (query or update) that starts finds every Will's embedded
\* lists equal to the standalone collections, also when the two writes are
\* separate steps.
DualWriteAtomic ==
    [][ ~CompletesHandler => \A k \in DOMAIN willsStorage : WillInSync(k) ]_vars

\* addAsset is between its two writes: the Will holds an asset that the
\* standalone collection does not hold yet.
DualWriteWitness ==
    /\ pc = "addAsset"
    /\ pending.id \notin DOMAIN assetsStorage
    /\ \E k \in DOMAIN willsStorage :
           \E i \in DOMAIN willsStorage[k].assets :
               willsStorage[k].assets[i] = pending

\* The ids of the records held by a collection.
RecordIds(map) == { map[k].id : k \in DOMAIN map }

\* Postcondition of addAsset(payload) on an existing Will.
AddAssetPost(payload) ==
    LET k     == payload.willId
        old   == willsStorage[k]
        new   == willsStorage'[k]
        asset == new.assets[Len(new.assets)]
    IN  /\ lastResult'.tag = "Ok"
        /\ DOMAIN willsStorage' = DOMAIN willsStorage
        /\ Len(new.assets) = Len(old.assets) + 1
        /\ SubSeq(new.assets, 1, Len(old.assets)) = old.assets
        /\ asset.willId = payload.willId
        /\ asset.name = payload.name
        /\ asset.value = payload.value
        /\ asset.id \notin Range(issued)
        /\ DOMAIN assetsStorage' = DOMAIN assetsStorage \cup { asset.id }
        /\ assetsStorage'[asset.id] = asset
        /\ new.beneficiaries = old.beneficiaries
        /\ \A other \in DOMAIN willsStorage \ { k } :
               willsStorage'[other] = willsStorage[other]
        /\ UNCHANGED << usersStorage, executorsStorage, beneficiariesStorage >>

\* Postcondition of addBeneficiary(payload) on an existing Will.
AddBeneficiaryPost(payload) ==
    LET k           == payload.willId
        old         == willsStorage[k]
        new         == willsStorage'[k]
        beneficiary == new.beneficiaries[Len(new.beneficiaries)]
    IN  /\ lastResult'.tag = "Ok"
        /\ DOMAIN willsStorage' = DOMAIN willsStorage
        /\ Len(new.beneficiaries) = Len(old.beneficiaries) + 1
        /\ SubSeq(new.beneficiaries, 1, Len(old.beneficiaries)) = old.beneficiaries
        /\ beneficiary.willId = payload.willId
        /\ beneficiary.name = payload.name
        /\ beneficiary.share = payload.share
        /\ beneficiary.id \notin Range(issued)
        /\ DOMAIN beneficiariesStorage' =
               DOMAIN beneficiariesStorage \cup { beneficiary.id }
        /\ beneficiariesStorage'[beneficiary.id] = beneficiary
        /\ new.assets = old.assets
        /\ \A other \in DOMAIN willsStorage \ { k } :
               willsStorage'[other] = willsStorage[other]
        /\ UNCHANGED << usersStorage, executorsStorage, assetsStorage >>

\* C3: addAsset on a willId present in Wills succeeds, appends exactly one
\* new Asset (willId, name, value from the payload, fresh id) at the end of
\* that Will's assets, stores the identical record in Assets under that id,
\* and leaves every other Will, the Will's beneficiaries, Users, Executors
\* and Beneficiaries unchanged; addBeneficiary does the same for
\* beneficiaries.
AddAppendsOneRecord ==
    [][ /\ lastResult'.op = "addAsset" =>
               \A payload \in AssetPayload :
                   payload.willId \in DOMAIN willsStorage /\ addAsset(payload)
                       => AddAssetPost(payload)
        /\ lastResult'.op = "addBeneficiary" =>
               \A payload \in BeneficiaryPayload :
                   payload.willId \in DOMAIN willsStorage /\ addBeneficiary(payload)
                       => AddBeneficiaryPost(payload) ]_vars

\* addAsset has just succeeded on one of two Wills.
AddAppendsWitness ==
    /\ lastResult.op = "addAsset"
    /\ lastResult.tag = "Ok"
    /\ Cardinality(DOMAIN willsStorage) = 2
    /\ Cardinality(DOMAIN assetsStorage) = 1

\* The createWill payloads whose userId is a stored User and whose
\* executorId is a stored Executor.
ResolvableWillPayload ==
    [ userId : DOMAIN usersStorage, executorId : DOMAIN executorsStorage ]

\* C4: createWill fails with a not-found error and changes no collection
\* when userId is not a stored User or executorId is not a stored Executor;
\* otherwise it succeeds and stores a Will with that userId and executorId
\* and empty assets and beneficiaries.  (A failing call is never the call
\* of a payload that resolves; a succeeding call is always one.)
CreateWillChecksReferences ==
    [][ lastResult'.op = "createWill" =>
          /\ lastResult'.tag \in { "Ok", "Err" }
          /\ lastResult'.tag = "Err" =>
                /\ lastResult'.val \in { "User not found.", "Executor not found." }
                /\ UNCHANGED stores
                /\ \A payload \in ResolvableWillPayload : ~createWill(payload)
          /\ lastResult'.tag = "Ok" =>
                \A payload \in WillPayload :
                    createWill(payload) =>
                        /\ payload \in ResolvableWillPayload
                        /\ \E id \in DOMAIN willsStorage' \ DOMAIN willsStorage :
                               /\ willsStorage'[id].userId = payload.userId
                               /\ willsStorage'[id].executorId = payload.executorId
                               /\ willsStorage'[id].assets = << >>
                               /\ willsStorage'[id].beneficiaries = << >>
                               /\ lastResult'.val = willsStorage'[id] ]_vars

\* createWill has just failed on its executor although a User and an
\* Executor are stored.
CreateWillWitness ==
    /\ lastResult.op = "createWill"
    /\ lastResult.tag = "Err"
    /\ lastResult.val = "Executor not found."
    /\ DOMAIN usersStorage # { }
    /\ DOMAIN executorsStorage # { }

\* C5: every Will's userId is the id of a stored User and its executorId the
\* id of a stored Executor, and every standalone Asset and Beneficiary has
\* the willId of a stored Will.
ReferentialIntegrity ==
    /\ \A k \in DOMAIN willsStorage :
           /\ willsStorage[k].userId \in RecordIds(usersStorage)
           /\ willsStorage[k].executorId \in RecordIds(executorsStorage)
    /\ \A a \in DOMAIN assetsStorage :
           assetsStorage[a].willId \in RecordIds(willsStorage)
    /\ \A b \in DOMAIN beneficiariesStorage :
           beneficiariesStorage[b].willId \in RecordIds(willsStorage)

\* assignExecutor has just succeeded on a Will that owns an asset, with two
\* Executors stored.
ReferentialIntegrityWitness ==
    /\ lastResult.op = "assignExecutor"
    /\ lastResult.tag = "Ok"
    /\ Cardinality(DOMAIN executorsStorage) = 2
    /\ DOMAIN assetsStorage # { }

\* Postcondition of a successful assignExecutor(payload).
AssignExecutorPost(payload) ==
    LET k   == payload.willId
        old == willsStorage[k]
        new == willsStorage'[k]
    IN  /\ DOMAIN willsStorage' = DOMAIN willsStorage
        /\ new.executorId = payload.executorId
        /\ new.id = old.id
        /\ new.userId = old.userId
        /\ new.assets = old.assets
        /\ new.beneficiaries = old.beneficiaries
        /\ new.createdAt = old.createdAt
        /\ new.isExecuted = old.isExecuted
        /\ \A other \in DOMAIN willsStorage \ { k } :
               willsStorage'[other] = willsStorage[other]
        /\ UNCHANGED << usersStorage, executorsStorage, assetsStorage,
                        beneficiariesStorage >>

\* C6: a successful assignExecutor(willId, e2) sets the Will's executorId to
\* e2 and changes nothing else: not the Will's other fields, not another
\* Will, not Users, Executors, Assets or Beneficiaries.
AssignExecutorFrame ==
    [][ lastResult'.op = "assignExecutor" /\ lastResult'.tag = "Ok" =>
            \A payload \in AssignExecutorPayload :
                assignExecutor(payload) => AssignExecutorPost(payload) ]_vars

\* assignExecutor has just moved a Will that owns an asset to an Executor
\* created after the Will.
AssignExecutorFrameWitness ==
    /\ lastResult.op = "assignExecutor"
    /\ lastResult.tag = "Ok"
    /\ \E k \in DOMAIN willsStorage :
           /\ willsStorage[k].assets # << >>
           /\ willsStorage[k].executorId \in DOMAIN executorsStorage
           /\ executorsStorage[willsStorage[k].executorId].createdAt
                  > willsStorage[k].createdAt

\* C7: assignExecutor fails with a not-found error when willId matches no
\* Will or executorId matches no Executor, and then changes no collection.
\* (Only a call whose willId and executorId both resolve succeeds; a failing
\* call returns a not-found error and changes nothing.)
AssignExecutorRejects ==
    [][ lastResult'.op = "assignExecutor" =>
          /\ lastResult'.tag \in { "Ok", "Err" }
          /\ lastResult'.tag = "Err" =>
                /\ lastResult'.val \in { "Will not found.", "Executor not found." }
                /\ UNCHANGED stores
          /\ lastResult'.tag = "Ok" =>
                \A payload \in AssignExecutorPayload :
                    assignExecutor(payload) =>
                        /\ payload.willId \in DOMAIN willsStorage
                        /\ payload.executorId \in DOMAIN executorsStorage ]_vars

\* assignExecutor has just failed on its executor for a stored Will.
AssignExecutorRejectsWitness ==
    /\ lastResult.op = "assignExecutor"
    /\ lastResult.tag = "Err"
    /\ lastResult.val = "Executor not found."
    /\ DOMAIN willsStorage # { }

\* C8: addAsset and addBeneficiary on a willId that matches no Will fail with
\* a not-found error and change no collection: no orphan record is stored.
\* (Only a call whose willId resolves succeeds; a failing call returns the
\* not-found error and changes nothing.)
AddRejectsUnknownWill ==
    [][ /\ lastResult'.op = "addAsset" =>
               /\ lastResult'.tag \in { "Ok", "Err" }
               /\ lastResult'.tag = "Err" =>
                     lastResult'.val = "Will not found." /\ UNCHANGED stores
               /\ lastResult'.tag = "Ok" =>
                     \A payload \in AssetPayload :
                         addAsset(payload) => payload.willId \in DOMAIN willsStorage
        /\ lastResult'.op = "addBeneficiary" =>
               /\ lastResult'.tag \in { "Ok", "Err" }
               /\ lastResult'.tag = "Err" =>
                     lastResult'.val = "Will not found." /\ UNCHANGED stores
               /\ lastResult'.tag = "Ok" =>
                     \A payload \in BeneficiaryPayload :
                         addBeneficiary(payload) =>
                             payload.willId \in DOMAIN willsStorage ]_vars

\* addAsset has just failed while a Will is stored under another id.
AddRejectsWitness ==
    /\ lastResult.op = "addAsset"
    /\ lastResult.tag = "Err"
    /\ DOMAIN willsStorage # { }

\* A text that is empty or consists only of whitespace.
Blank(s) == \A i \in 1 .. Len(s) : s[i] = " "

\* C9: createUser rejects, with a validation error and no change to any
\* collection, every payload whose name or email is empty or whitespace-only,
\* and createExecutor does the same for name and contact; every other
\* payload is accepted and stored.
BlankFieldsRejected ==
    [][ /\ \A payload \in UserPayload :
             createUser(payload) =>
                 IF Blank(payload.name) \/ Blank(payload.email)
                 THEN lastResult'.tag = "Err" /\ UNCHANGED stores
                 ELSE /\ lastResult'.tag = "Ok"
                      /\ lastResult'.val \in { usersStorage'[k] : k \in DOMAIN usersStorage' }
        /\ \A payload \in ExecutorPayload :
             createExecutor(payload) =>
                 IF Blank(payload.name) \/ Blank(payload.contact)
                 THEN lastResult'.tag = "Err" /\ UNCHANGED stores
                 ELSE /\ lastResult'.tag = "Ok"
                      /\ lastResult'.val \in
                             { executorsStorage'[k] : k \in DOMAIN executorsStorage' } ]_vars

\* The step adds the record with this id to the collection and keeps every
\* record the collection held.
Grows(old, new, id) ==
    /\ id \notin DOMAIN old
    /\ DOMAIN new = DOMAIN old \cup { id }
    /\ new[id].id = id
    /\ \A k \in DOMAIN old : new[k] = old[k]

SameKeys(old, new) == DOMAIN new = DOMAIN old

\* C10: with a generator that never repeats, every successful create stores
\* a record whose id differs from the id of every record already in any of
\* the five collections; it overwrites no record and its collection grows by
\* exactly one record.
CreatesUseFreshId ==
    [][ issued' # issued =>
          LET id == issued'[Len(issued')]
              U  == Grows(usersStorage, usersStorage', id)
              E  == Grows(executorsStorage, executorsStorage', id)
              W  == Grows(willsStorage, willsStorage', id)
              A  == Grows(assetsStorage, assetsStorage', id)
              B  == Grows(beneficiariesStorage, beneficiariesStorage', id)
              u  == SameKeys(usersStorage, usersStorage')
              e  == SameKeys(executorsStorage, executorsStorage')
              w  == SameKeys(willsStorage, willsStorage')
              a  == SameKeys(assetsStorage, assetsStorage')
              b  == SameKeys(beneficiariesStorage, beneficiariesStorage')
          IN  /\ id \notin RecordIds(usersStorage) \cup RecordIds(executorsStorage)
                       \cup RecordIds(willsStorage) \cup RecordIds(assetsStorage)
                       \cup RecordIds(beneficiariesStorage)
              /\ \/ U /\ e /\ w /\ a /\ b
                 \/ u /\ E /\ w /\ a /\ b
                 \/ u /\ e /\ W /\ a /\ b
                 \/ u /\ e /\ w /\ A /\ b
                 \/ u /\ e /\ w /\ a /\ B ]_vars

\* Each of the five collections holds a record.
CreatesWitness ==
    /\ DOMAIN usersStorage # { }
    /\ DOMAIN executorsStorage # { }
    /\ DOMAIN willsStorage # { }
    /\ DOMAIN assetsStorage # { }
    /\ DOMAIN beneficiariesStorage # { }

\* C13: isExecuted is false for every Will in every reachable state:
\* createWill stores false and no handler changes it.
IsExecutedAlwaysFalse ==
    \A k \in DOMAIN willsStorage : willsStorage[k].isExecuted = FALSE

\* A Will that was re-stored by addAsset, addBeneficiary and assignExecutor.
IsExecutedWitness ==
    /\ lastResult.op = "assignExecutor"
    /\ lastResult.tag = "Ok"
    /\ \E k \in DOMAIN willsStorage :
           /\ willsStorage[k].assets # << >>
           /\ willsStorage[k].beneficiaries # << >>

\* Every record the collection held is still held unchanged.
Kept(old, new) == \A k \in DOMAIN old : k \in DOMAIN new => new[k] = old[k]

\* C16: once created, a User, Executor, standalone Asset or standalone
\* Beneficiary record is never changed by a later operation, and a Will's
\* id, userId and createdAt never change; no createdAt is recomputed.
RecordsImmutable ==
    [][ /\ Kept(usersStorage, usersStorage')
        /\ Kept(executorsStorage, executorsStorage')
        /\ Kept(assetsStorage, assetsStorage')
        /\ Kept(beneficiariesStorage, beneficiariesStorage')
        /\ \A k \in DOMAIN willsStorage :
               k \in DOMAIN willsStorage' =>
                   /\ willsStorage'[k].id = willsStorage[k].id
                   /\ willsStorage'[k].userId = willsStorage[k].userId
                   /\ willsStorage'[k].createdAt = willsStorage[k].createdAt ]_vars

\* addAsset has just re-stored a Will, after a Beneficiary was stored.
RecordsImmutableWitness ==
    /\ lastResult.op = "addAsset"
    /\ lastResult.tag = "Ok"
    /\ DOMAIN beneficiariesStorage # { }
    /\ \E k \in DOMAIN willsStorage : Len(willsStorage[k].assets) = 1

\* s is a prefix of t.
IsPrefix(s, t) == Len(s) <= Len(t) /\ SubSeq(t, 1, Len(s)) = s

\* C17: the store is append-only: across every operation each collection's
\* key set only grows, and each Will's assets and beneficiaries lists before
\* the operation are prefixes of the same lists after it.
AppendOnly ==
    [][ /\ DOMAIN usersStorage \subseteq DOMAIN usersStorage'
        /\ DOMAIN executorsStorage \subseteq DOMAIN executorsStorage'
        /\ DOMAIN willsStorage \subseteq DOMAIN willsStorage'
        /\ DOMAIN assetsStorage \subseteq DOMAIN assetsStorage'
        /\ DOMAIN beneficiariesStorage \subseteq DOMAIN beneficiariesStorage'
        /\ \A k \in DOMAIN willsStorage \cap DOMAIN willsStorage' :
               /\ IsPrefix(willsStorage[k].assets, willsStorage'[k].assets)
               /\ IsPrefix(willsStorage[k].beneficiaries,
                           willsStorage'[k].beneficiaries) ]_vars

\* A Will to which two beneficiaries were appended.
AppendOnlyWitness ==
    \E k \in DOMAIN willsStorage : Len(willsStorage[k].beneficiaries) = 2

\* The answer of a "get all" query over a collection: the empty-collection
\* error exactly when the collection is empty, otherwise every record of the
\* collection exactly once.
ListsAll(result, map, message) ==
    IF DOMAIN map = { }
    THEN result.tag = "Err" /\ result.val = message
    ELSE /\ result.tag = "Ok"
         /\ Len(result.val) = Cardinality(DOMAIN map)
         /\ Range(result.val) = { map[k] : k \in DOMAIN map }

\* C11: getAllUsers fails with the empty-collection error exactly when Users
\* holds no record, and otherwise returns exactly the Users created so far,
\* none missing and none extra; getAllExecutors and getAllWills likewise.
GetAllReturnsCollection ==
    /\ lastResult.op = "getAllUsers" =>
           ListsAll(lastResult, usersStorage, "No users found.")
    /\ lastResult.op = "getAllExecutors" =>
           ListsAll(lastResult, executorsStorage, "No executors found.")
    /\ lastResult.op = "getAllWills" =>
           ListsAll(lastResult, willsStorage, "No wills found.")

\* getAllExecutors has just returned two Executors.
GetAllWitness ==
    /\ lastResult.op = "getAllExecutors"
    /\ lastResult.tag = "Ok"
    /\ Len(lastResult.val) = 2

\* The answer of a "get by id" query: the not-found error exactly when the
\* collection holds no record under the id, otherwise that record.
Finds(result, map, id, message) ==
    IF id \notin DOMAIN map
    THEN result.tag = "Err" /\ result.val = message
    ELSE result.tag = "Ok" /\ result.val = map[id]

\* C12: getUser, getExecutor and getWill fail with a not-found error exactly
\* when no record with that id is in their collection, and otherwise return
\* the record currently stored under that id.
GetReturnsStoredRecord ==
    [][ /\ lastResult'.op = "getUser" =>
               \A id \in Ids :
                   getUser(id) => Finds(lastResult', usersStorage, id, "User not found.")
        /\ lastResult'.op = "getExecutor" =>
               \A id \in Ids :
                   getExecutor(id) =>
                       Finds(lastResult', executorsStorage, id, "Executor not found.")
        /\ lastResult'.op = "getWill" =>
               \A id \in Ids :
                   getWill(id) => Finds(lastResult', willsStorage, id, "Will not found.") ]_vars

\* getWill has just returned a Will with an asset and an executor assigned
\* after the Will was created.
GetReturnsWitness ==
    /\ lastResult.op = "getWill"
    /\ lastResult.tag = "Ok"
    /\ lastResult.val.assets # << >>
    /\ lastResult.val.executorId \in DOMAIN executorsStorage
    /\ executorsStorage[lastResult.val.executorId].createdAt
           > lastResult.val.createdAt

QueryOps ==
    { "getUser", "getAllUsers", "getExecutor", "getAllExecutors", "getWill",
      "getAllWills" }

\* C15: a query leaves all five collections unchanged whether it succeeds
\* or fails, and getUser(id) called again with no update in between returns
\* the identical result.
QueriesReadOnly ==
    [][ lastResult'.op \in QueryOps =>
          /\ UNCHANGED stores
          /\ lastResult.op = "getUser" /\ lastResult'.op = "getUser" =>
                \A id \in Ids :
                    /\ getUser(id)
                    /\ \/ lastResult.tag = "Err" /\ id \notin DOMAIN usersStorage
                       \/ lastResult.tag = "Ok" /\ lastResult.val.id = id
                    => lastResult' = lastResult ]_vars

\* getUser has just returned a stored User while a Will is stored.
QueriesReadOnlyWitness ==
    /\ lastResult.op = "getUser"
    /\ lastResult.tag = "Ok"
    /\ DOMAIN willsStorage # { }

\* C14: after createUser, createExecutor, createWill with their ids, one
\* addAsset and one addBeneficiary on that will, createExecutor for a second
\* executor and assignExecutor to it, getWill on that will returns a Will
\* with exactly one asset, exactly one beneficiary and the second executor's
\* id (the executor created after the Will) as executorId.
ScenarioGetWill ==
    lastResult.op = "getWill" /\ lastResult.tag = "Ok" =>
        /\ Len(lastResult.val.assets) = 1
        /\ Len(lastResult.val.beneficiaries) = 1
        /\ lastResult.val.executorId \in DOMAIN executorsStorage
        /\ executorsStorage[lastResult.val.executorId].createdAt
               > lastResult.val.createdAt

\* getWill has just returned the Will at the end of the session.
ScenarioWitness ==
    /\ lastResult.op = "getWill"
    /\ lastResult.tag = "Ok"
    /\ Count(executorsStorage) = 2
    /\ Count(assetsStorage) = 1
    /\ Count(beneficiariesStorage) = 1

====
